---------------------------- MODULE Spec2Model ----------------------------
(***************************************************************************)
(* Model of kik_unofficial/datatypes/xmpp/chatting.py: the outgoing        *)
(* stanza serializers and the incoming stanza decoders.                    *)
(*                                                                         *)
(* Python str values are TLA+ strings (TLC evaluates Len, \o, SubSeq, Head *)
(* and Tail on them).  A Python value that may be None, or whose type is   *)
(* part of what is checked, is a tagged record: PyNone, PyStr(s),          *)
(* PyBool(b).  The codec keeps no state between calls; the state of the    *)
(* model is the last call: which operation ran, on what input, with what   *)
(* outcome.                                                                *)
(***************************************************************************)
EXTENDS Integers, Sequences, FiniteSets, TLC

VARIABLES op, inp, out

vars == <<op, inp, out>>

(***************************************************************************)
(* Python values.                                                          *)
(***************************************************************************)
PyNone == [py |-> "None"]

PyStr(s) == [py |-> "str", v |-> s]

PyBool(b) == [py |-> "bool", v |-> b]

\* bool(x) for an optional string: None and '' are falsy.
Truthy(x) == x.py = "str" /\ x.v # ""

\* str(True) / str(False)
str_bool(b) == IF b THEN "True" ELSE "False"

\* str.lower(), on the letters str(bool) can produce.
LowerChar(c) ==
    CASE c = "T" -> "t"
      [] c = "F" -> "f"
      [] OTHER -> c

RECURSIVE lower(_)
lower(s) == IF s = "" THEN "" ELSE LowerChar(Head(s)) \o lower(Tail(s))

\* '{}'.format(x) for an optional string: None is rendered as the text None.
Format(x) == IF x.py = "None" THEN "None" ELSE x.v

\* str(n) for a natural number.
Digit(d) == SubSeq("0123456789", d + 1, d + 1)

RECURSIVE str_int(_)
str_int(n) == IF n < 10 THEN Digit(n) ELSE str_int(n \div 10) \o Digit(n % 10)

\* needle in haystack
RECURSIVE InFrom(_, _, _)
InFrom(needle, hay, i) ==
    IF i + Len(needle) - 1 > Len(hay) THEN FALSE
    ELSE IF SubSeq(hay, i, i + Len(needle) - 1) = needle THEN TRUE
    ELSE InFrom(needle, hay, i + 1)

In(needle, hay) == InFrom(needle, hay, 1)

\* s[0:n]
Slice0(s, n) == SubSeq(s, 1, IF Len(s) < n THEN Len(s) ELSE n)

\* str.encode(): the stanza as bytes.  Every character the model uses is
\* ASCII, one byte each, so the bytes are written as the same text, tagged.
encode(s) == [py |-> "bytes", v |-> s]

(***************************************************************************)
(* ParsingUtilities.escape_xml                                             *)
(***************************************************************************)
EscapeChar(c) ==
    CASE c = "&" -> "&amp;"
      [] c = "<" -> "&lt;"
      [] c = ">" -> "&gt;"
      [] c = "\"" -> "&quot;"
      [] c = "'" -> "&apos;"
      [] OTHER -> c

RECURSIVE escape_xml(_)
escape_xml(s) == IF s = "" THEN "" ELSE EscapeChar(Head(s)) \o escape_xml(Tail(s))

(***************************************************************************)
(* Bounds and input sets.                                                  *)
(***************************************************************************)
\* longest free text drawn over Alphabet
MaxLen == 2

\* body[0:20]
PreviewLen == 20

Alphabet == {"a", "&", "<", ">", "\"", "'"}

RECURSIVE StrsUpTo(_)
StrsUpTo(n) ==
    IF n = 0 THEN {""}
    ELSE LET S == StrsUpTo(n - 1) IN S \cup {s \o c : s \in S, c \in Alphabet}

Texts == StrsUpTo(MaxLen)

\* 19 characters: with it in front, a text of MaxLen characters straddles
\* the 20-character preview.
LongPrefix == "aaaaaaaaaaaaaaaaaaa"

Bodies == Texts \cup {LongPrefix \o s : s \in Texts}

Labels == {"Kik", "R&D <\"x\"> 'y'"}

UserJid == "bob_x1@talk.kik.com"

GroupJid == "1100221067977_g@groups.kik.com"

PeerJids == {UserJid, GroupJid, "groupie_q7@talk.kik.com"}

GroupJids == {GroupJid, "1100221067977_g", "team", "groups"}

\* XMPPElement.__init__, which sets message_id, is defined outside this file:
\* the identifier is the caller's, any string.
MessageIds == {"", "c9a3"}

\* time.time() * 1000, rounded: the clock reading, in milliseconds
Clock == {1541}

(***************************************************************************)
(* OutgoingChatMessage                                                     *)
(***************************************************************************)
bot_mention_data(self) ==
    IF Truthy(self.bot_mention_jid)
    THEN "<mention><bot>" \o Format(self.bot_mention_jid) \o "</bot></mention>"
    ELSE ""

\* the preview cut after escaping instead of before
PreviewOf_EscapeFirst(body) == Slice0(escape_xml(body), PreviewLen)

PreviewOf(body) == escape_xml(Slice0(body, PreviewLen))

OutgoingChatMessage_serialize(self, now) ==
    LET timestamp == str_int(now)
        message_type == IF ~self.is_group THEN "chat" ELSE "groupchat"
        data == "<message type=\"" \o message_type \o "\" to=\"" \o self.peer_jid
                \o "\" id=\"" \o self.message_id \o "\" cts=\"" \o timestamp \o "\">"
                \o "<body>" \o escape_xml(self.body) \o "</body>"
                \o bot_mention_data(self)
                \o "<preview>" \o PreviewOf(self.body) \o "</preview>"
                \o "<kik push=\"true\" qos=\"true\" timestamp=\"" \o timestamp \o "\" />"
                \o "<request xmlns=\"kik:message:receipt\" r=\"true\" d=\"true\" />"
                \o "<ri></ri>"
                \o "</message>"
    IN encode(data)

(***************************************************************************)
(* OutgoingReadReceipt                                                     *)
(***************************************************************************)
ReadReceiptHasGroup(group_line) == In("groups", group_line)

OutgoingReadReceipt_serialize(self, now) ==
    LET timestamp == str_int(now)
        group_line == "<g jid=\"" \o Format(self.group_jid) \o "\" />"
        data == "<message type=\"receipt\" id=\"" \o self.message_id \o "\" to=\""
                \o self.peer_jid \o "\" cts=\"" \o timestamp \o "\">"
                \o "<kik push=\"false\" qos=\"true\" timestamp=\"" \o timestamp \o "\" />"
                \o "<receipt xmlns=\"kik:message:receipt\" type=\"read\">"
                \o "<msgid id=\"" \o self.receipt_message_id \o "\" />"
                \o "</receipt>"
    IN IF ReadReceiptHasGroup(group_line)
       THEN encode(data \o group_line \o "</message>")
       ELSE encode(data \o "</message>")

(***************************************************************************)
(* OutgoingDeliveredReceipt                                                *)
(***************************************************************************)
OutgoingDeliveredReceipt_serialize(self, now) ==
    LET timestamp == str_int(now)
        data == "<message type=\"receipt\" id=\"" \o self.message_id \o "\" to=\""
                \o self.peer_jid \o "\" cts=\"" \o timestamp \o "\">"
                \o "<kik push=\"false\" qos=\"true\" timestamp=\"" \o timestamp \o "\" />"
                \o "<receipt xmlns=\"kik:message:receipt\" type=\"delivered\">"
                \o "<msgid id=\"" \o self.receipt_message_id \o "\" />"
                \o "</receipt>"
                \o "</message>"
    IN encode(data)

(***************************************************************************)
(* OutgoingIsTypingEvent, OutgoingGroupIsTypingEvent                       *)
(***************************************************************************)
\* the value without lower()
IsTypingVal_NoLower(is_typing) == str_bool(is_typing)

IsTypingVal(is_typing) == lower(str_bool(is_typing))

OutgoingIsTypingEvent_serialize(self, now) ==
    LET timestamp == str_int(now)
        data == "<message type=\"chat\" to=\"" \o self.peer_jid \o "\" id=\""
                \o self.message_id \o "\">"
                \o "<kik push=\"false\" qos=\"false\" timestamp=\"" \o timestamp \o "\" />"
                \o "<is-typing val=\"" \o IsTypingVal(self.is_typing) \o "\" />"
                \o "</message>"
    IN encode(data)

GroupTypingPlaceholder == "<pb></pb>"

OutgoingGroupIsTypingEvent_serialize(self, now) ==
    LET timestamp == str_int(now)
        data == "<message type=\"groupchat\" to=\"" \o self.peer_jid \o "\" id=\""
                \o self.message_id \o "\">"
                \o GroupTypingPlaceholder
                \o "<kik push=\"false\" qos=\"false\" timestamp=\"" \o timestamp \o "\" />"
                \o "<is-typing val=\"" \o IsTypingVal(self.is_typing) \o "\" />"
                \o "</message>"
    IN encode(data)

(***************************************************************************)
(* OutgoingLinkShareEvent                                                  *)
(***************************************************************************)
LinkShareIsGroup(peer_jid) == In("group", peer_jid)

LinkShareMessageType(peer_jid) ==
    IF LinkShareIsGroup(peer_jid)
    THEN "type=\"groupchat\" xmlns=\"kik:groups\""
    ELSE "type=\"chat\""

OutgoingLinkShareEvent_serialize(self, now) ==
    LET message_type == LinkShareMessageType(self.peer_jid)
        timestamp == str_int(now)
        data == "<message " \o message_type \o " to=\"" \o self.peer_jid \o "\" id=\""
                \o self.message_id \o "\" cts=\"" \o timestamp \o "\">"
                \o "<pb></pb>"
                \o "<kik push=\"true\" qos=\"true\" timestamp=\"" \o timestamp \o "\" />"
                \o "<request xmlns=\"kik:message:receipt\" r=\"true\" d=\"true\" />"
                \o "<content id=\"" \o self.message_id \o "\" app-id=\"com.kik.cards\" v=\"2\">"
                \o "<strings>"
                \o "<app-name>" \o self.app_name \o "</app-name>"
                \o "<layout>article</layout>"
                \o "<title>" \o self.title \o "</title>"
                \o "<text>" \o self.text \o "</text>"
                \o "<allow-forward>true</allow-forward>"
                \o "</strings>"
                \o "<extras />"
                \o "<hashes />"
                \o "<images>"
                \o "</images>"
                \o "<uris>"
                \o "<uri platform=\"cards\">" \o self.link \o "</uri>"
                \o "<uri></uri>"
                \o "<uri>http://cdn.kik.com/cards/unsupported.html</uri>"
                \o "</uris>"
                \o "</content>"
                \o "</message>"
    IN encode(data)

(***************************************************************************)
(* The calls.                                                              *)
(***************************************************************************)
Init ==
    /\ op = "none"
    /\ inp = PyNone
    /\ out = PyNone

SerializeChatMessage ==
    /\ op = "none"
    /\ \E peer_jid \in PeerJids, body \in Bodies, is_group \in BOOLEAN,
       bot \in {PyNone, PyStr(""), PyStr("helper_bot@talk.kik.com")},
       message_id \in MessageIds, now \in Clock :
        LET self == [peer_jid |-> peer_jid, body |-> body, is_group |-> is_group,
                     bot_mention_jid |-> bot, message_id |-> message_id]
        IN /\ op' = "OutgoingChatMessage"
           /\ inp' = self
           /\ out' = OutgoingChatMessage_serialize(self, now)

SerializeReadReceipt ==
    /\ op = "none"
    /\ \E peer_jid \in PeerJids, group_jid \in {PyNone} \cup {PyStr(g) : g \in GroupJids},
       message_id \in MessageIds, now \in Clock :
        LET self == [peer_jid |-> peer_jid, receipt_message_id |-> "77f0",
                     group_jid |-> group_jid, message_id |-> message_id]
        IN /\ op' = "OutgoingReadReceipt"
           /\ inp' = self
           /\ out' = OutgoingReadReceipt_serialize(self, now)

SerializeDeliveredReceipt ==
    /\ op = "none"
    /\ \E peer_jid \in PeerJids, message_id \in MessageIds, now \in Clock :
        LET self == [peer_jid |-> peer_jid, receipt_message_id |-> "77f0",
                     message_id |-> message_id]
        IN /\ op' = "OutgoingDeliveredReceipt"
           /\ inp' = self
           /\ out' = OutgoingDeliveredReceipt_serialize(self, now)

SerializeIsTyping ==
    /\ op = "none"
    /\ \E peer_jid \in PeerJids, is_typing \in BOOLEAN,
       message_id \in MessageIds, now \in Clock :
        LET self == [peer_jid |-> peer_jid, is_typing |-> is_typing,
                     message_id |-> message_id]
        IN /\ op' = "OutgoingIsTypingEvent"
           /\ inp' = self
           /\ out' = OutgoingIsTypingEvent_serialize(self, now)

SerializeGroupIsTyping ==
    /\ op = "none"
    /\ \E group_jid \in PeerJids, is_typing \in BOOLEAN,
       message_id \in MessageIds, now \in Clock :
        LET self == [peer_jid |-> group_jid, is_typing |-> is_typing,
                     message_id |-> message_id]
        IN /\ op' = "OutgoingGroupIsTypingEvent"
           /\ inp' = self
           /\ out' = OutgoingGroupIsTypingEvent_serialize(self, now)

SerializeLinkShare ==
    /\ op = "none"
    /\ \E peer_jid \in PeerJids, link \in Texts, title \in Labels, text \in Labels,
       app_name \in Labels, message_id \in MessageIds, now \in Clock :
        LET self == [peer_jid |-> peer_jid, link |-> link, title |-> title,
                     text |-> text, app_name |-> app_name, message_id |-> message_id]
        IN /\ op' = "OutgoingLinkShareEvent"
           /\ inp' = self
           /\ out' = OutgoingLinkShareEvent_serialize(self, now)

\* The caller takes the outcome; the codec keeps nothing of the call.
Return ==
    /\ op # "none"
    /\ op' = "none"
    /\ inp' = PyNone
    /\ out' = PyNone

NextEncode ==
    \/ SerializeChatMessage
    \/ SerializeReadReceipt
    \/ SerializeDeliveredReceipt
    \/ SerializeIsTyping
    \/ SerializeGroupIsTyping
    \/ SerializeLinkShare
    \/ Return

SpecEncode == Init /\ [][NextEncode]_vars

(***************************************************************************)
(* A parsed stanza: the BeautifulSoup Tag the decoders are handed.         *)
(* A Tag has a name, attributes, a leading text and child Tags.            *)
(***************************************************************************)
Tag(tag, attrs, text, kids) ==
    [py |-> "Tag", tag |-> tag, attrs |-> attrs, text |-> text, kids |-> kids]

Leaf(tag, attrs, text) == Tag(tag, attrs, text, <<>>)

NoAttrs == <<>>

\* every Tag below node, in document order
RECURSIVE Descendants(_)
RECURSIVE DescendantsOfAll(_)
Descendants(node) == DescendantsOfAll(node.kids)

DescendantsOfAll(kids) ==
    IF kids = <<>> THEN <<>>
    ELSE <<Head(kids)>> \o Descendants(Head(kids)) \o DescendantsOfAll(Tail(kids))

FirstNamed(nodes, name) ==
    LET hits == SelectSeq(nodes, LAMBDA n : n.tag = name)
    IN IF hits = <<>> THEN PyNone ELSE hits[1]

\* tag.find(name), and tag.<name>: the first descendant of that name, or None
Find(node, name) == FirstNamed(Descendants(node), name)

\* tag.find(name, recursive=False): the first direct child of that name, or None
FindDirect(node, name) == FirstNamed(node.kids, name)

\* tag.findAll(name)
FindAll(node, name) == SelectSeq(Descendants(node), LAMBDA n : n.tag = name)

\* tag.contents: the leading text, when there is one, then the child Tags
Contents(node) ==
    IF node.text = "" THEN node.kids ELSE <<PyStr(node.text)>> \o node.kids

\* tag.text: all the text below the tag
RECURSIVE AllText(_)
RECURSIVE AllTextOfAll(_)
AllText(node) == node.text \o AllTextOfAll(node.kids)

AllTextOfAll(kids) ==
    IF kids = <<>> THEN "" ELSE AllText(Head(kids)) \o AllTextOfAll(Tail(kids))

\* tag.string: the single string of the tag, or None
RECURSIVE String(_)
String(node) ==
    IF Len(Contents(node)) # 1 THEN PyNone
    ELSE IF node.kids = <<>> THEN PyStr(node.text)
    ELSE String(node.kids[1])

(***************************************************************************)
(* A Python expression either has a value or raises.                       *)
(***************************************************************************)
Ok(v) == [ok |-> TRUE, v |-> v]

Raise(exc) == [ok |-> FALSE, exc |-> exc]

\* x[key] on a Tag or on None
GetItem(x, key) ==
    IF x = PyNone THEN Raise("TypeError")
    ELSE IF x.py = "str" THEN Raise("TypeError")
    ELSE IF key \in DOMAIN x.attrs THEN Ok(PyStr(x.attrs[key]))
    ELSE Raise("KeyError")

\* x.text on a Tag or on None
GetText(x) ==
    IF x = PyNone THEN Raise("AttributeError") ELSE Ok(PyStr(AllText(x)))

\* <expression> == 'true'
EqTrue(r) == IF r.ok THEN Ok(PyBool(r.v = PyStr("true"))) ELSE r

\* XMPPResponse.__init__, which every decoder calls first, is defined outside
\* this file; the stanzas of the model carry the id attribute it reads.

\* names assigned in a constructor that are local variables, not attributes
LocalNames == {"extras_map"}

\* An object under construction: the assignments of __init__ in order, each a
\* pair <<name, outcome>>.  The first that raises ends the constructor with
\* its exception; otherwise the object holds every attribute assigned.
Construct(cls, steps) ==
    LET failed == {i \in 1..Len(steps) : ~steps[i][2].ok}
    IN IF failed # {}
       THEN LET i == CHOOSE k \in failed : \A j \in failed : k <= j
            IN [py |-> "error", exc |-> steps[i][2].exc, at |-> steps[i][1]]
       ELSE [py |-> cls,
             f |-> [a \in {steps[i][1] : i \in 1..Len(steps)} \ LocalNames |->
                      steps[CHOOSE i \in 1..Len(steps) : steps[i][1] = a][2].v]]

(***************************************************************************)
(* IncomingChatMessage, IncomingGroupChatMessage                           *)
(***************************************************************************)
\* data.request[attr] == 'true' if data.request else False
RequestFlagOrFalse(data, attr) ==
    LET request == Find(data, "request")
    IN IF request # PyNone THEN EqTrue(GetItem(request, attr)) ELSE Ok(PyBool(FALSE))

\* data.<name>.text if data.<name> else None
TextOrNone(data, name) ==
    LET found == Find(data, name)
    IN IF found # PyNone THEN GetText(found) ELSE Ok(PyNone)

ChatMessageBody(data) == FindDirect(data, "body")

ChatMessageIsTyping(data) ==
    LET is_typing == Find(data, "is-typing")
    IN IF is_typing # PyNone THEN EqTrue(GetItem(is_typing, "val")) ELSE Ok(PyNone)

IncomingChatMessage_steps(data) ==
    << <<"request_delivered_receipt", RequestFlagOrFalse(data, "d")>>,
       <<"request_read_receipt", RequestFlagOrFalse(data, "r")>>,
       <<"status", TextOrNone(data, "status")>>,
       <<"preview", TextOrNone(data, "preview")>>,
       <<"from_jid", GetItem(data, "from")>>,
       <<"to_jid", GetItem(data, "to")>>,
       <<"body", LET body == ChatMessageBody(data)
                 IN IF body # PyNone THEN GetText(body) ELSE Ok(PyNone)>>,
       <<"is_typing", ChatMessageIsTyping(data)>> >>

IncomingChatMessage(data) == Construct("IncomingChatMessage", IncomingChatMessage_steps(data))

\* the lookup descending below the direct children
GroupChatMessage_g_Recursive(data) == Find(data, "g")

GroupChatMessage_g(data) == FindDirect(data, "g")

IncomingGroupChatMessage(data) ==
    Construct("IncomingGroupChatMessage",
              IncomingChatMessage_steps(data)
              \o << <<"group_jid", GetItem(GroupChatMessage_g(data), "jid")>> >>)

(***************************************************************************)
(* IncomingMessageReadEvent, IncomingMessageDeliveredEvent                 *)
(***************************************************************************)
\* data.receipt.msgid['id']
ReceiptMessageId(data) ==
    LET receipt == Find(data, "receipt")
    IN IF receipt = PyNone THEN Raise("AttributeError")
       ELSE GetItem(Find(receipt, "msgid"), "id")

\* data.g['jid'] if data.g else None
GroupJidOrNone(data) ==
    LET g == Find(data, "g")
    IN IF g # PyNone THEN GetItem(g, "jid") ELSE Ok(PyNone)

ReceiptEvent_steps(data) ==
    << <<"receipt_message_id", ReceiptMessageId(data)>>,
       <<"from_jid", GetItem(data, "from")>>,
       <<"group_jid", GroupJidOrNone(data)>> >>

IncomingMessageReadEvent(data) ==
    Construct("IncomingMessageReadEvent", ReceiptEvent_steps(data))

IncomingMessageDeliveredEvent(data) ==
    Construct("IncomingMessageDeliveredEvent", ReceiptEvent_steps(data))

(***************************************************************************)
(* IncomingGroupStatus, IncomingGroupSysmsg                                *)
(***************************************************************************)
\* Group(group) if group and len(group.contents) > 0 else None
GroupOrNone(data) ==
    LET group == FindDirect(data, "g")
    IN IF group # PyNone /\ Len(Contents(group)) > 0
       THEN Ok([py |-> "Group", of |-> group])
       ELSE Ok(PyNone)

IncomingGroupStatus(data) ==
    LET status == FindDirect(data, "status")
    IN Construct("IncomingGroupStatus",
        << <<"request_delivered_receipt", RequestFlagOrFalse(data, "d")>>,
           <<"requets_read_receipt", RequestFlagOrFalse(data, "r")>>,
           <<"group_jid", GetItem(data, "from")>>,
           <<"to_jid", GetItem(data, "to")>>,
           <<"status", IF status # PyNone THEN GetText(status) ELSE Ok(PyNone)>>,
           <<"status_jid", IF status # PyNone /\ "jid" \in DOMAIN status.attrs
                           THEN GetItem(status, "jid") ELSE Ok(PyNone)>>,
           <<"group", GroupOrNone(data)>> >>)

IncomingGroupSysmsg(data) ==
    LET sysmsg == FindDirect(data, "sysmsg")
    IN Construct("IncomingGroupSysmsg",
        << <<"request_delivered_receipt", RequestFlagOrFalse(data, "d")>>,
           <<"requets_read_receipt", RequestFlagOrFalse(data, "r")>>,
           <<"group_jid", GetItem(data, "from")>>,
           <<"to_jid", GetItem(data, "to")>>,
           <<"sysmsg_xmlns", IF sysmsg # PyNone /\ "xmlns" \in DOMAIN sysmsg.attrs
                             THEN GetItem(sysmsg, "xmlns") ELSE Ok(PyNone)>>,
           <<"sysmsg", IF sysmsg # PyNone THEN GetText(sysmsg) ELSE Ok(PyNone)>>,
           <<"group", GroupOrNone(data)>> >>)

(***************************************************************************)
(* IncomingImageMessage, IncomingGifMessage, IncomingVideoMessage,         *)
(* IncomingCardMessage                                                     *)
(***************************************************************************)
\* data.request[attr] == 'true'
RequestFlag(data, attr) == EqTrue(GetItem(Find(data, "request"), attr))

\* data.find(name).text, raising when there is no such element
FindText(data, name) == GetText(Find(data, name))

IncomingImageMessage(data) ==
    Construct("IncomingImageMessage",
        << <<"request_delivered_receipt", RequestFlag(data, "d")>>,
           <<"requets_read_receipt", RequestFlag(data, "r")>>,
           <<"image_url", TextOrNone(data, "file-url")>>,
           <<"status", TextOrNone(data, "status")>>,
           <<"from_jid", GetItem(data, "from")>>,
           <<"to_jid", GetItem(data, "to")>>,
           <<"group_jid", GroupJidOrNone(data)>> >>)

\* the Uri objects built from the contents of <uris>, in document order;
\* attrs are the attributes each one requires
RECURSIVE UriList(_, _)
UriList(contents, attrs) ==
    IF contents = <<>> THEN Ok(<<>>)
    ELSE LET uri == Head(contents)
             got == [a \in attrs |-> GetItem(uri, a)]
             bad == {a \in attrs : ~got[a].ok}
             rest == UriList(Tail(contents), attrs)
         IN IF bad # {} THEN Raise(got[CHOOSE a \in bad : TRUE].exc)
            ELSE IF ~rest.ok THEN rest
            ELSE Ok(<<[a \in attrs \cup {"url"} |->
                        IF a = "url" THEN PyStr(AllText(uri)) ELSE got[a].v]>> \o rest.v)

\* [Uri(uri) for uri in data.content.uris]
ContentUris(data, attrs) ==
    LET content == Find(data, "content")
        uris == IF content = PyNone THEN PyNone ELSE Find(content, "uris")
    IN IF content = PyNone THEN Raise("AttributeError")
       ELSE IF uris = PyNone THEN Raise("TypeError")
       ELSE LET built == UriList(Contents(uris), attrs)
            IN IF built.ok THEN Ok([py |-> "list", v |-> built.v]) ELSE built

IncomingGifMessage(data) ==
    Construct("IncomingGifMessage",
        << <<"request_delivered_receipt", RequestFlag(data, "d")>>,
           <<"requets_read_receipt", RequestFlag(data, "r")>>,
           <<"status", TextOrNone(data, "status")>>,
           <<"from_jid", GetItem(data, "from")>>,
           <<"to_jid", GetItem(data, "to")>>,
           <<"group_jid", GetItem(Find(data, "g"), "jid")>>,
           <<"uris", ContentUris(data, {"file-content-type", "type"})>> >>)

IncomingVideoMessage(data) ==
    Construct("IncomingVideoMessage",
        << <<"request_delivered_receipt", RequestFlag(data, "d")>>,
           <<"requets_read_receipt", RequestFlag(data, "r")>>,
           <<"video_url", FindText(data, "file-url")>>,
           <<"file_content_type", TextOrNone(data, "file-content-type")>>,
           <<"duration_milliseconds", TextOrNone(data, "duration")>>,
           <<"file_size", FindText(data, "file-size")>>,
           <<"from_jid", GetItem(data, "from")>>,
           <<"to_jid", GetItem(data, "to")>>,
           <<"group_jid", GetItem(Find(data, "g"), "jid")>> >>)

IncomingCardMessage(data) ==
    Construct("IncomingCardMessage",
        << <<"request_delivered_receipt", RequestFlag(data, "d")>>,
           <<"request_read_receipt", RequestFlag(data, "r")>>,
           <<"from_jid", GetItem(data, "from")>>,
           <<"to_jid", GetItem(data, "to")>>,
           <<"group_jid", GetItem(Find(data, "g"), "jid")>>,
           <<"app_name", TextOrNone(data, "app-name")>>,
           <<"card_icon", TextOrNone(data, "card-icon")>>,
           <<"layout", TextOrNone(data, "layout")>>,
           <<"title", TextOrNone(data, "title")>>,
           <<"text", TextOrNone(data, "text")>>,
           <<"allow_forward", TextOrNone(data, "allow-forward")>>,
           <<"icon", TextOrNone(data, "icon")>>,
           <<"uri", TextOrNone(data, "uri")>> >>)

(***************************************************************************)
(* IncomingGroupSticker                                                    *)
(***************************************************************************)
\* A dict: a sequence of <<key, value>> with distinct keys, in insertion
\* order.  d[key] = value replaces the value of a key already there.
DictHas(d, key) == \E i \in 1..Len(d) : d[i][1] = key

DictGet(d, key) == d[CHOOSE i \in 1..Len(d) : d[i][1] = key][2]

DictSet(d, key, value) ==
    IF DictHas(d, key)
    THEN [i \in 1..Len(d) |-> IF d[i][1] = key THEN <<key, value>> ELSE d[i]]
    ELSE Append(d, <<key, value>>)

\* extras_map[item.key.string] = item.val.text, for each item in turn
RECURSIVE ExtrasFrom(_, _)
ExtrasFrom(items, extras_map) ==
    IF items = <<>> THEN Ok(extras_map)
    ELSE LET item == Head(items)
             key == Find(item, "key")
             val == Find(item, "val")
         IN IF key = PyNone \/ val = PyNone THEN Raise("AttributeError")
            ELSE ExtrasFrom(Tail(items),
                            DictSet(extras_map, String(key), PyStr(AllText(val))))

parse_extras(extras) ==
    IF extras = PyNone THEN Raise("AttributeError")
    ELSE ExtrasFrom(FindAll(extras, "item"), <<>>)

\* the lookup with a placeholder string for a key that is not in the table
ExtraOrNone_Placeholder(extras_map, name) ==
    IF ~extras_map.ok THEN extras_map
    ELSE IF DictHas(extras_map.v, PyStr(name)) THEN Ok(DictGet(extras_map.v, PyStr(name)))
    ELSE Ok(PyStr(""))

\* extras_map[name] if name in extras_map else None
ExtraOrNone(extras_map, name) ==
    IF ~extras_map.ok THEN extras_map
    ELSE IF DictHas(extras_map.v, PyStr(name)) THEN Ok(DictGet(extras_map.v, PyStr(name)))
    ELSE Ok(PyNone)

\* content.images.find('png-preview').text if content.images.find('png-preview') else None
StickerPngPreview(content) ==
    LET images == IF content = PyNone THEN PyNone ELSE Find(content, "images")
    IN IF images = PyNone THEN Raise("AttributeError")
       ELSE TextOrNone(images, "png-preview")

IncomingGroupSticker(data) ==
    LET content == Find(data, "content")
        extras_map == IF content = PyNone THEN Raise("AttributeError")
                      ELSE parse_extras(Find(content, "extras"))
    IN Construct("IncomingGroupSticker",
        << <<"extras_map", IF extras_map.ok THEN Ok(PyNone) ELSE extras_map>>,
           <<"from_jid", GetItem(data, "from")>>,
           <<"group_jid", GetItem(Find(data, "g"), "jid")>>,
           <<"sticker_pack_id", ExtraOrNone(extras_map, "sticker_pack_id")>>,
           <<"sticker_url", ExtraOrNone(extras_map, "sticker_url")>>,
           <<"sticker_id", ExtraOrNone(extras_map, "sticker_id")>>,
           <<"sticker_source", ExtraOrNone(extras_map, "sticker_source")>>,
           <<"png_preview", StickerPngPreview(content)>>,
           <<"uris", ContentUris(data, {"platform"})>> >>)

(***************************************************************************)
(* The stanzas handed to the decoders.                                     *)
(***************************************************************************)
\* most child elements of a stanza
MaxKids == 3

\* most <item> elements of a sticker's <extras>
MaxItems == 2

NestedGroupJid == "nested_g@groups.kik.com"

\* a <content> holding elements named like the direct children of a message
NestedContent ==
    Tag("content", NoAttrs, "",
        << Leaf("request", [d |-> "true", r |-> "true"], ""),
           Leaf("status", NoAttrs, "nested status"),
           Leaf("preview", NoAttrs, "nested preview"),
           Leaf("body", NoAttrs, "nested body"),
           Leaf("g", [jid |-> NestedGroupJid], "") >>)

GifContent ==
    Tag("content", NoAttrs, "",
        << Tag("uris", NoAttrs, "",
               << Leaf("uri", ("type" :> "video") @@ ("file-content-type" :> "video/mp4"), "http://a/1.mp4"),
                  Leaf("uri", ("type" :> "video") @@ ("file-content-type" :> "video/webm"), "http://a/1.webm") >>) >>)

VideoContent ==
    Tag("content", NoAttrs, "",
        << Leaf("file-url", NoAttrs, "http://a/v"),
           Leaf("file-size", NoAttrs, "1024") >>)

CardContent ==
    Tag("content", NoAttrs, "",
        << Tag("strings", NoAttrs, "",
               << Leaf("app-name", NoAttrs, "Kik"), Leaf("title", NoAttrs, "News") >>),
           Tag("uris", NoAttrs, "", << Leaf("uri", [platform |-> "cards"], "http://a/c") >>) >>)

\* The child elements a stanza is made of, in the order they appear in it.
Catalogue ==
    << NestedContent,
       Leaf("request", [d |-> "true", r |-> "true"], ""),
       Leaf("request", [d |-> "false", r |-> "true"], ""),
       Leaf("request", [d |-> "True", r |-> "1"], ""),
       Leaf("request", NoAttrs, ""),
       Leaf("status", NoAttrs, "has joined"),
       Leaf("status", [jid |-> UserJid], "has left"),
       Leaf("preview", NoAttrs, "hi"),
       Leaf("body", NoAttrs, "hi there"),
       Leaf("g", [jid |-> GroupJid], ""),
       Leaf("g", NoAttrs, ""),
       Tag("g", [jid |-> GroupJid], "", << Leaf("n", NoAttrs, "team"), Leaf("m", NoAttrs, UserJid) >>),
       Leaf("is-typing", [val |-> "true"], ""),
       Leaf("is-typing", [val |-> "false"], ""),
       Tag("receipt", [type |-> "read"], "", << Leaf("msgid", [id |-> "77f0"], "") >>),
       Leaf("sysmsg", [xmlns |-> "kik:msg:info"], "the group name changed"),
       GifContent,
       VideoContent,
       CardContent >>

\* the sets of at most n positions of the catalogue
RECURSIVE Picks(_)
Picks(n) ==
    IF n = 0 THEN {{}}
    ELSE LET P == Picks(n - 1)
         IN P \cup {p \cup {i} : p \in P, i \in 1..Len(Catalogue)}

KidsOf(pick) == SelectSeq(Catalogue, LAMBDA e : \E i \in pick : Catalogue[i] = e)

RootAttrs == [from |-> UserJid, to |-> "me_k2@talk.kik.com", id |-> "c9a3", type |-> "chat"]

Stanzas == {Tag("message", RootAttrs, "", KidsOf(pick)) : pick \in Picks(MaxKids)}

\* the <item> elements of a sticker's <extras>
Item(key, val) ==
    Tag("item", NoAttrs, "", << Leaf("key", NoAttrs, key), Leaf("val", NoAttrs, val) >>)

Items ==
    {Item(key, val) : key \in {"sticker_pack_id", "sticker_id", "sticker_url",
                               "sticker_source", "color", ""},
                      val \in {"abc", "7"}}

RECURSIVE ItemLists(_)
ItemLists(n) ==
    IF n = 0 THEN {<<>>}
    ELSE LET L == ItemLists(n - 1) IN L \cup {Append(l, item) : l \in L, item \in Items}

StickerContent(items, images) ==
    Tag("content", NoAttrs, "",
        << Tag("extras", NoAttrs, "", items),
           Tag("images", NoAttrs, "", images),
           Tag("uris", NoAttrs, "", << Leaf("uri", [platform |-> "cards"], "http://a/s") >>) >>)

StickerStanzas ==
    {Tag("message", RootAttrs, "", g \o <<StickerContent(items, images)>>) :
        g \in {<<>>, <<Leaf("g", [jid |-> GroupJid], "")>>},
        items \in ItemLists(MaxItems),
        images \in {<<>>, <<Leaf("png-preview", NoAttrs, "iVBOR")>>}}

(***************************************************************************)
(* The decoding calls.                                                     *)
(***************************************************************************)
Decode(cls, data, event) ==
    /\ op' = cls
    /\ inp' = data
    /\ out' = event

DecodeChatMessage ==
    /\ op = "none"
    /\ \E data \in Stanzas : Decode("IncomingChatMessage", data, IncomingChatMessage(data))

DecodeGroupChatMessage ==
    /\ op = "none"
    /\ \E data \in Stanzas :
        Decode("IncomingGroupChatMessage", data, IncomingGroupChatMessage(data))

DecodeMessageReadEvent ==
    /\ op = "none"
    /\ \E data \in Stanzas :
        Decode("IncomingMessageReadEvent", data, IncomingMessageReadEvent(data))

DecodeMessageDeliveredEvent ==
    /\ op = "none"
    /\ \E data \in Stanzas :
        Decode("IncomingMessageDeliveredEvent", data, IncomingMessageDeliveredEvent(data))

DecodeGroupStatus ==
    /\ op = "none"
    /\ \E data \in Stanzas : Decode("IncomingGroupStatus", data, IncomingGroupStatus(data))

DecodeGroupSysmsg ==
    /\ op = "none"
    /\ \E data \in Stanzas : Decode("IncomingGroupSysmsg", data, IncomingGroupSysmsg(data))

DecodeImageMessage ==
    /\ op = "none"
    /\ \E data \in Stanzas : Decode("IncomingImageMessage", data, IncomingImageMessage(data))

DecodeGifMessage ==
    /\ op = "none"
    /\ \E data \in Stanzas : Decode("IncomingGifMessage", data, IncomingGifMessage(data))

DecodeVideoMessage ==
    /\ op = "none"
    /\ \E data \in Stanzas : Decode("IncomingVideoMessage", data, IncomingVideoMessage(data))

DecodeCardMessage ==
    /\ op = "none"
    /\ \E data \in Stanzas : Decode("IncomingCardMessage", data, IncomingCardMessage(data))

DecodeGroupSticker ==
    /\ op = "none"
    /\ \E data \in StickerStanzas :
        Decode("IncomingGroupSticker", data, IncomingGroupSticker(data))

NextDecode ==
    \/ DecodeChatMessage
    \/ DecodeGroupChatMessage
    \/ DecodeMessageReadEvent
    \/ DecodeMessageDeliveredEvent
    \/ DecodeGroupStatus
    \/ DecodeGroupSysmsg
    \/ DecodeImageMessage
    \/ DecodeGifMessage
    \/ DecodeVideoMessage
    \/ DecodeCardMessage
    \/ DecodeGroupSticker
    \/ Return

SpecDecode == Init /\ [][NextDecode]_vars

Next == NextEncode \/ NextDecode

Spec == Init /\ [][Next]_vars

(***************************************************************************)
(* Reading a stanza back: a small XML scanner over the produced text, used *)
(* by the properties below.  It is not part of the codec.                  *)
(***************************************************************************)
CharAt(s, i) == SubSeq(s, i, i)

\* the first position >= i holding character c, or Len(s) + 1
RECURSIVE FindChar(_, _, _)
FindChar(s, c, i) ==
    IF i > Len(s) THEN Len(s) + 1
    ELSE IF CharAt(s, i) = c THEN i
    ELSE FindChar(s, c, i + 1)

\* the text between < and >, as a token
TagToken(inner) ==
    IF inner # "" /\ Head(inner) = "/"
    THEN [k |-> "close", name |-> Tail(inner), attrs |-> ""]
    ELSE LET selfclosing == inner # "" /\ CharAt(inner, Len(inner)) = "/"
             core == IF selfclosing THEN SubSeq(inner, 1, Len(inner) - 1) ELSE inner
             sp == FindChar(core, " ", 1)
         IN [k |-> IF selfclosing THEN "empty" ELSE "open",
             name |-> SubSeq(core, 1, sp - 1),
             attrs |-> SubSeq(core, sp + 1, Len(core))]

RECURSIVE TokensFrom(_, _)
TokensFrom(s, i) ==
    IF i > Len(s) THEN <<>>
    ELSE IF CharAt(s, i) = "<"
    THEN LET j == FindChar(s, ">", i + 1)
         IN IF j > Len(s)
            THEN <<[k |-> "bad", name |-> "", attrs |-> ""]>>
            ELSE <<TagToken(SubSeq(s, i + 1, j - 1))>> \o TokensFrom(s, j + 1)
    ELSE LET j == FindChar(s, "<", i)
         IN <<[k |-> "text", name |-> SubSeq(s, i, j - 1), attrs |-> ""]>>
            \o TokensFrom(s, j)

Tokens(s) == TokensFrom(s, 1)

\* The elements of a token sequence in document order, each with its depth,
\* its parent's name and its leading text.  A closing tag that does not match
\* the open element, or an unterminated tag, yields an element named "#bad".
RECURSIVE ElemsFrom(_, _, _)
ElemsFrom(toks, i, stack) ==
    IF i > Len(toks)
    THEN IF stack = <<>> THEN <<>>
         ELSE <<[name |-> "#bad", attrs |-> "", depth |-> 0, parent |-> "", text |-> ""]>>
    ELSE LET t == toks[i]
             parent == IF stack = <<>> THEN "" ELSE stack[Len(stack)]
             lead == IF i < Len(toks) /\ toks[i + 1].k = "text" THEN toks[i + 1].name ELSE ""
             bad == <<[name |-> "#bad", attrs |-> "", depth |-> 0, parent |-> "", text |-> ""]>>
         IN CASE t.k = "open" ->
                   <<[name |-> t.name, attrs |-> t.attrs, depth |-> Len(stack),
                      parent |-> parent, text |-> lead]>>
                   \o ElemsFrom(toks, i + 1, Append(stack, t.name))
              [] t.k = "empty" ->
                   <<[name |-> t.name, attrs |-> t.attrs, depth |-> Len(stack),
                      parent |-> parent, text |-> ""]>>
                   \o ElemsFrom(toks, i + 1, stack)
              [] t.k = "close" ->
                   IF stack # <<>> /\ parent = t.name
                   THEN ElemsFrom(toks, i + 1, SubSeq(stack, 1, Len(stack) - 1))
                   ELSE bad
              [] t.k = "text" -> ElemsFrom(toks, i + 1, stack)
              [] OTHER -> bad

Elems(s) == ElemsFrom(Tokens(s), 1, <<>>)

\* the value of attribute name in the text of a tag's attributes, or PyNone
RECURSIVE AttrFrom(_, _, _)
AttrFrom(attrs, name, i) ==
    LET key == name \o "=\""
        n == Len(key)
    IN IF i + n - 1 > Len(attrs) THEN PyNone
       ELSE IF SubSeq(attrs, i, i + n - 1) = key /\ (i = 1 \/ CharAt(attrs, i - 1) = " ")
       THEN PyStr(SubSeq(attrs, i + n, FindChar(attrs, "\"", i + n) - 1))
       ELSE AttrFrom(attrs, name, i + 1)

Attr(e, name) == AttrFrom(e.attrs, name, 1)

\* the names of the elements with their nesting: the shape of a stanza
ShapeOf(es) == [i \in 1..Len(es) |-> <<es[i].name, es[i].depth>>]

Named(es, name) == SelectSeq(es, LAMBDA e : e.name = name)

ChildrenOf(es, parentName) == SelectSeq(es, LAMBDA e : e.parent = parentName)

\* the leading text of the first element of that name, or PyNone
TextOf(es, name) ==
    LET found == Named(es, name) IN IF found = <<>> THEN PyNone ELSE PyStr(found[1].text)

\* XML entity decoding, one entity at a time
RECURSIVE Unescape(_)
Unescape(s) ==
    LET starts(p) == Len(s) >= Len(p) /\ SubSeq(s, 1, Len(p)) = p
        rest(p) == SubSeq(s, Len(p) + 1, Len(s))
    IN CASE s = "" -> ""
         [] starts("&amp;") -> "&" \o Unescape(rest("&amp;"))
         [] starts("&lt;") -> "<" \o Unescape(rest("&lt;"))
         [] starts("&gt;") -> ">" \o Unescape(rest("&gt;"))
         [] starts("&quot;") -> "\"" \o Unescape(rest("&quot;"))
         [] starts("&apos;") -> "'" \o Unescape(rest("&apos;"))
         [] OTHER -> Head(s) \o Unescape(Tail(s))

\* no <, >, " or ' as such, and every & opens an entity
RECURSIVE NoRawSpecials(_)
NoRawSpecials(s) ==
    LET starts(p) == Len(s) >= Len(p) /\ SubSeq(s, 1, Len(p)) = p
    IN IF s = "" THEN TRUE
       ELSE IF Head(s) \in {"<", ">", "\"", "'"} THEN FALSE
       ELSE IF Head(s) = "&"
       THEN /\ \E p \in {"&amp;", "&lt;", "&gt;", "&quot;", "&apos;"} : starts(p)
            /\ NoRawSpecials(Tail(s))
       ELSE NoRawSpecials(Tail(s))

Outbound ==
    {"OutgoingChatMessage", "OutgoingReadReceipt", "OutgoingDeliveredReceipt",
     "OutgoingIsTypingEvent", "OutgoingGroupIsTypingEvent", "OutgoingLinkShareEvent"}

\* the elements of the stanza the last call returned
OutElems == IF out.py = "bytes" THEN Elems(out.v) ELSE <<>>

\* text is the escaped form of raw
EscapedFormOf(text, raw) ==
    /\ text # PyNone
    /\ NoRawSpecials(text.v)
    /\ Unescape(text.v) = raw

(***************************************************************************)
(* Properties of the serializers.                                          *)
(***************************************************************************)

\* C1: a serialized read receipt carries a <g> group-identifier element if
\* and only if a group_jid was supplied at construction, whatever its text.
C1_GroupElementIffGroupReceipt ==
    op = "OutgoingReadReceipt" =>
        /\ out.py = "bytes"
        /\ (Named(OutElems, "g") # <<>>) <=> (inp.group_jid.py # "None")

\* C2: every user-controlled string of a chat message (body, preview) and of
\* a link share (title, text, app_name, link) reaches the stanza escaped: the
\* element holding it has no raw & < > " ' and decodes back to the input, and
\* the stanza has the elements it has for empty strings, no more.
C2_UserStringsEscaped ==
    LET es == OutElems
    IN /\ op = "OutgoingLinkShareEvent" =>
            LET blank == [inp EXCEPT !.title = "", !.text = "", !.app_name = "",
                                     !.link = ""]
            IN /\ EscapedFormOf(TextOf(es, "title"), inp.title)
               /\ EscapedFormOf(TextOf(es, "text"), inp.text)
               /\ EscapedFormOf(TextOf(es, "app-name"), inp.app_name)
               /\ EscapedFormOf(TextOf(es, "uri"), inp.link)
               /\ ShapeOf(es) = ShapeOf(Elems(OutgoingLinkShareEvent_serialize(blank, 0).v))
       /\ op = "OutgoingChatMessage" =>
            /\ EscapedFormOf(TextOf(es, "body"), inp.body)
            /\ EscapedFormOf(TextOf(es, "preview"), Slice0(inp.body, 20))
            /\ ShapeOf(es)
                 = ShapeOf(Elems(OutgoingChatMessage_serialize([inp EXCEPT !.body = ""], 0).v))

\* C3: serialize of an event whose message_id is empty ends in an error and
\* returns no bytes; no returned stanza has an empty id attribute.
C3_EmptyMessageIdRejected ==
    op \in Outbound =>
        /\ inp.message_id = "" => out.py = "error"
        /\ out.py = "bytes" => Attr(OutElems[1], "id") # PyStr("")

\* C4: the <preview> of a chat message is the escaped form of exactly the
\* first min(20, len(body)) characters of the raw body; serialize returns a
\* stanza for every body, the empty one included.
C4_PreviewIsEscapedPrefix ==
    op = "OutgoingChatMessage" =>
        LET n == IF Len(inp.body) < 20 THEN Len(inp.body) ELSE 20
            es == OutElems
        IN /\ out.py = "bytes"
           /\ Len(Named(es, "preview")) = 1
           /\ EscapedFormOf(TextOf(es, "preview"), SubSeq(inp.body, 1, n))

\* C4 witness: a body longer than the preview whose 20th character needs
\* escaping, serialized, and an empty body, serialized.
C4_Witness ==
    /\ op = "OutgoingChatMessage"
    /\ Len(inp.body) > 20
    /\ CharAt(inp.body, 20) = "&"
    /\ TextOf(OutElems, "preview") = PyStr(LongPrefix \o "&amp;")

\* C6: a link share has type="groupchat" with xmlns="kik:groups" exactly when
\* the destination denotes a group and type="chat" without namespace
\* otherwise; <uris> holds exactly three <uri>: platform="cards" holding the
\* link, an empty one, and the fixed unsupported-content one.
C6_LinkShareTypeAndUris ==
    op = "OutgoingLinkShareEvent" =>
        LET es == OutElems
            root == es[1]
            uris == ChildrenOf(es, "uris")
        IN /\ IF LinkShareIsGroup(inp.peer_jid)
              THEN Attr(root, "type") = PyStr("groupchat")
                   /\ Attr(root, "xmlns") = PyStr("kik:groups")
              ELSE Attr(root, "type") = PyStr("chat")
                   /\ Attr(root, "xmlns") = PyNone
           /\ Len(Named(es, "uris")) = 1
           /\ Len(uris) = 3
           /\ \A i \in 1..3 : uris[i].name = "uri"
           /\ Attr(uris[1], "platform") = PyStr("cards")
           /\ Unescape(uris[1].text) = inp.link
           /\ uris[2].attrs = "" /\ uris[2].text = ""
           /\ uris[3].attrs = ""
           /\ uris[3].text = "http://cdn.kik.com/cards/unsupported.html"

\* C10: a typing stanza is type="chat", a group typing stanza type="groupchat"
\* beginning with an empty <pb></pb>; neither has a <request> element nor a
\* push="true" attribute; <is-typing val> is "true" exactly when is_typing.
C10_TypingStanzaShape ==
    op \in {"OutgoingIsTypingEvent", "OutgoingGroupIsTypingEvent"} =>
        LET es == OutElems
            typing == Named(es, "is-typing")
        IN /\ out.py = "bytes"
           /\ es[1].name = "message"
           /\ Attr(es[1], "type")
                = PyStr(IF op = "OutgoingIsTypingEvent" THEN "chat" ELSE "groupchat")
           /\ IF op = "OutgoingGroupIsTypingEvent"
              THEN /\ es[2] = [name |-> "pb", attrs |-> "", depth |-> 1,
                               parent |-> "message", text |-> ""]
                   /\ ChildrenOf(es, "pb") = <<>>
              ELSE Named(es, "pb") = <<>>
           /\ Named(es, "request") = <<>>
           /\ \A i \in 1..Len(es) : Attr(es[i], "push") # PyStr("true")
           /\ Len(typing) = 1
           /\ Attr(typing[1], "val") = PyStr(IF inp.is_typing THEN "true" ELSE "false")

\* C10 witness: a group typing stanza for is_typing = True, with its
\* placeholder.
C10_Witness ==
    /\ op = "OutgoingGroupIsTypingEvent"
    /\ inp.is_typing
    /\ Named(OutElems, "pb") # <<>>
    /\ Attr(Named(OutElems, "is-typing")[1], "val") = PyStr("true")

(***************************************************************************)
(* Properties of the decoders.                                             *)
(***************************************************************************)
Decoded == out.py \notin {"None", "error", "bytes"}

DirectChildren(data, name) == SelectSeq(data.kids, LAMBDA n : n.tag = name)

\* C5: decoding as IncomingGroupChatMessage a stanza whose root has no direct
\* <g> child ends in an error and yields no event; an event that is yielded
\* has the jid of the first direct <g> child, never an empty or nested one.
C5_GroupChatNeedsDirectG ==
    op = "IncomingGroupChatMessage" =>
        LET g == DirectChildren(inp, "g")
        IN /\ g = <<>> => out.py = "error"
           /\ Decoded => /\ g # <<>>
                         /\ "jid" \in DOMAIN g[1].attrs
                         /\ out.f["group_jid"] = PyStr(g[1].attrs["jid"])
                         /\ out.f["group_jid"] # PyStr("")
                         /\ out.f["group_jid"] # PyStr(NestedGroupJid)

\* C5 witness: a stanza with a <g> nested in <content> and none directly
\* under the root, whose decode failed at group_jid.
C5_Witness ==
    /\ op = "IncomingGroupChatMessage"
    /\ DirectChildren(inp, "g") = <<>>
    /\ Find(inp, "g") # PyNone
    /\ out.py = "error"
    /\ out.at = "group_jid"

C7_Classes ==
    {"IncomingChatMessage", "IncomingGroupStatus", "IncomingGroupSysmsg",
     "IncomingImageMessage", "IncomingGifMessage", "IncomingVideoMessage",
     "IncomingCardMessage"}

ReadFlagName(cls) ==
    IF cls \in {"IncomingChatMessage", "IncomingCardMessage"}
    THEN "request_read_receipt" ELSE "requets_read_receipt"

\* C7: in the seven decoders named, a boolean read from an attribute is True
\* only when the attribute is the text true, and False for any other value
\* and when the element or the attribute is absent; absence gives no third
\* value and does not make the decode fail.  The element is the one the
\* decoder reads: the first of that name in the stanza.
C7_BooleanCoercion ==
    op \in C7_Classes =>
        LET request == Find(inp, "request")
            typing == Find(inp, "is-typing")
            isTrue(e, attr) ==
                PyBool(e # PyNone /\ attr \in DOMAIN e.attrs /\ e.attrs[attr] = "true")
        IN /\ out.py = "error" =>
                out.at \notin {"request_delivered_receipt", ReadFlagName(op), "is_typing"}
           /\ Decoded =>
                /\ out.f["request_delivered_receipt"] = isTrue(request, "d")
                /\ out.f[ReadFlagName(op)] = isTrue(request, "r")
                /\ op = "IncomingChatMessage" => out.f["is_typing"] = isTrue(typing, "val")

\* the optional fields of each decoder: <<attribute, tag read, absent value>>
OptionalFields(cls) ==
    LET flags == {<<"request_delivered_receipt", "request", PyBool(FALSE)>>,
                  <<ReadFlagName(cls), "request", PyBool(FALSE)>>}
    IN CASE cls \in {"IncomingChatMessage", "IncomingGroupChatMessage"} ->
              flags \cup {<<"status", "status", PyNone>>, <<"preview", "preview", PyNone>>,
                          <<"body", "body", PyNone>>}
         [] cls \in {"IncomingMessageReadEvent", "IncomingMessageDeliveredEvent"} ->
              {<<"group_jid", "g", PyNone>>}
         [] cls = "IncomingGroupStatus" ->
              flags \cup {<<"status", "status", PyNone>>, <<"status_jid", "status", PyNone>>,
                          <<"group", "g", PyNone>>}
         [] cls = "IncomingGroupSysmsg" -> flags \cup {<<"group", "g", PyNone>>}
         [] cls = "IncomingImageMessage" ->
              {<<"status", "status", PyNone>>, <<"group_jid", "g", PyNone>>}
         [] cls = "IncomingGifMessage" -> {<<"status", "status", PyNone>>}
         [] OTHER -> {}

\* C8: an optional field of a decoded event is read from a direct child of
\* the root only: with no direct child of the expected tag the field is the
\* absent value, also when an element of that name is nested deeper.
C8_OptionalFieldsFromDirectChildren ==
    Decoded =>
        \A fld \in OptionalFields(op) :
            DirectChildren(inp, fld[2]) = <<>> => out.f[fld[1]] = fld[3]

StickerNamed == {"sticker_pack_id", "sticker_id", "sticker_url", "sticker_source"}

\* C9: each named field of a decoded sticker is the val of the item (the last
\* one in the document) whose key has that name, and None when no item has
\* it; items with other keys are kept in the table parse_extras returns, are
\* no attribute of the event, and never make the decode fail.
C9_StickerExtras ==
    op = "IncomingGroupSticker" =>
        LET extras == Find(Find(inp, "content"), "extras")
            items == extras.kids
            keyOf(i) == items[i].kids[1].text
            valOf(i) == items[i].kids[2].text
            last(k) == CHOOSE i \in 1..Len(items) :
                          keyOf(i) = k /\ \A j \in (i + 1)..Len(items) : keyOf(j) # k
            expected(k) == IF \E i \in 1..Len(items) : keyOf(i) = k
                           THEN PyStr(valOf(last(k))) ELSE PyNone
            pyKey(k) == IF k = "" THEN PyNone ELSE PyStr(k)
            table == parse_extras(extras)
        IN /\ out.py = "error" => out.at = "group_jid" /\ Find(inp, "g") = PyNone
           /\ Decoded =>
                /\ \A k \in StickerNamed : out.f[k] = expected(k)
                /\ DOMAIN out.f = StickerNamed \cup {"from_jid", "group_jid", "png_preview", "uris"}
           /\ table.ok
           /\ \A i \in 1..Len(items) :
                /\ DictHas(table.v, pyKey(keyOf(i)))
                /\ DictGet(table.v, pyKey(keyOf(i))) = expected(keyOf(i))

\* C9 witness: the items sticker_pack_id = abc and sticker_id = 7, decoded,
\* with sticker_url and sticker_source None.
C9_Witness ==
    /\ op = "IncomingGroupSticker"
    /\ Decoded
    /\ Find(inp, "extras").kids = <<Item("sticker_pack_id", "abc"), Item("sticker_id", "7")>>
    /\ out.f["sticker_pack_id"] = PyStr("abc")
    /\ out.f["sticker_id"] = PyStr("7")
    /\ out.f["sticker_url"] = PyNone
    /\ out.f["sticker_source"] = PyNone

=============================================================================
